---- MODULE Spec2Model ----
(***************************************************************************)
(* A model of build_outputs.py, the one-command export pipeline for KiCad  *)
(* projects: the staging of output directories (ensure_dir, clear_dir),    *)
(* the sequence of external commands issued by main() through run(), and   *)
(* the generation of README.md by render_readme_if_missing().              *)
(*                                                                         *)
(* The filesystem is the only state that outlives a run.  A directory is   *)
(* a record [exists, entries]; an entry is a record [name, kind, by, sub]  *)
(* where kind is "file", "symlink" or "dir", sub is the set of files       *)
(* nested in it (the members of an archive for a zip file) and by tells    *)
(* whether the entry was written by the current run ("cur") or was already *)
(* there when the run started ("old").                                     *)
(***************************************************************************)
EXTENDS Integers, Sequences, FiniteSets, TLC

VARIABLES
    \* ---- clear_dir called on its own (SpecClear) ----
    cdPath,      \* the resolved path handed to clear_dir: a sequence of parts
    cdDir,       \* the directory at that path
    cdBefore,    \* the directory as it was before the call
    cdFailing,   \* names of the entries whose removal raises during the call
    cdVisited,   \* names of the entries the loop of clear_dir reached
    cdOut,       \* "none" before the call, then "returned" or "raised"
    \* ---- one process running main() ----
    pc,          \* "idle", the external call main() issues next, "readme", "done"
    args,        \* the optional flags of the run: a subset of Flags
    calls,       \* the external commands issued by the run, in order
    exitCode,    \* -1 while running, then the exit status of the process
    error,       \* the message of the exception that ended the run, or ""
    rendered,    \* what render_readme_if_missing did in this run: "no", "kept", "wrote"
    isoAtStart,  \* whether <project>_iso.png was in PICTURES when the run started
    warned,      \* the entries clear_dir warned it could not remove in this run
    prev,        \* flags and exit status of the previous run ([exit |-> -1] if none)
    pyEnv,       \* the interpreters installed: beside kicad-cli and on the search path
    \* ---- the filesystem under the root ----
    three_d,     \* 3D_MODEL/
    pictures,    \* PICTURES/
    documentation, \* DOCUMENTATION/ (existence only)
    readme,      \* README.md
    fixed,       \* <prod-dir>/<project>
    stamped      \* <prod-dir>/<timestamp>_<project> for the current minute

cdVars == <<cdPath, cdDir, cdBefore, cdFailing, cdVisited, cdOut>>

runVars == <<pc, args, calls, exitCode, error, rendered, isoAtStart, warned, prev, pyEnv>>

fsVars == <<three_d, pictures, documentation, readme, fixed, stamped>>

vars == <<cdVars, runVars, fsVars>>

\* ------------------------------------------------------------------------
\* Bounds and program constants
\* ------------------------------------------------------------------------

\* Longest resolved path handed to clear_dir, in parts.
MaxParts == 4

\* Most removals that fail during one pass of clear_dir in a pipeline run.
MaxFailing == 1

\* len(parts) < 3 is refused by clear_dir.
MinParts == 3

\* ------------------------------------------------------------------------
\* Directories
\* ------------------------------------------------------------------------

NoDir == [exists |-> FALSE, entries |-> {}]

EmptyDir == [exists |-> TRUE, entries |-> {}]

Names(entries) == {e.name : e \in entries}

\* Path.mkdir(parents=True, exist_ok=True)
mkdir(d) == IF d.exists THEN d ELSE EmptyDir

\* ensure_dir(p)
ensure_dir(d) == mkdir(d)

\* entry.unlink(missing_ok=True): raises when the removal of this entry fails
unlink(e, failing) == e.name \notin failing

\* shutil.rmtree(entry): raises when the removal of this entry fails
rmtree(e, failing) == e.name \notin failing

\* The body of the try block of clear_dir: TRUE when the entry is gone.
remove_entry(e, failing) ==
    IF e.kind \in {"file", "symlink"} THEN unlink(e, failing) ELSE rmtree(e, failing)

\* A loop that gives up at the first removal that raises.
RECURSIVE clear_entries_abort(_, _)
clear_entries_abort(todo, failing) ==
    IF todo = {} THEN [left |-> {}, visited |-> {}, warned |-> {}]
    ELSE LET e == CHOOSE x \in todo : TRUE
         IN  IF remove_entry(e, failing)
             THEN LET rest == clear_entries_abort(todo \ {e}, failing)
                  IN  [left |-> rest.left, visited |-> {e.name} \cup rest.visited,
                       warned |-> rest.warned]
             ELSE [left |-> todo, visited |-> {e.name}, warned |-> {e.name}]

\* for entry in path.iterdir(): try: remove except Exception: warn
RECURSIVE clear_entries(_, _)
clear_entries(todo, failing) ==
    IF todo = {} THEN [left |-> {}, visited |-> {}, warned |-> {}]
    ELSE LET e == CHOOSE x \in todo : TRUE
             rest == clear_entries(todo \ {e}, failing)
             gone == remove_entry(e, failing)
         IN  [left    |-> (IF gone THEN {} ELSE {e}) \cup rest.left,
              visited |-> {e.name} \cup rest.visited,
              warned  |-> (IF gone THEN {} ELSE {e.name}) \cup rest.warned]

\* clear_dir without any pass over the entries.
clear_dir_keep(path, d, failing) ==
    [dir |-> mkdir(d), raised |-> Len(path) < MinParts, visited |-> {}, warned |-> {}]

\* clear_dir(path): mkdir, then the guard on the resolved parts, then the loop.
clear_dir(path, d, failing) ==
    LET made == mkdir(d)
    IN  IF Len(path) < MinParts
        THEN [dir |-> made, raised |-> TRUE, visited |-> {}, warned |-> {}]
        ELSE LET r == clear_entries(made.entries, failing)
             IN  [dir |-> [exists |-> TRUE, entries |-> r.left],
                  raised |-> FALSE, visited |-> r.visited, warned |-> r.warned]

\* ------------------------------------------------------------------------
\* clear_dir on its own
\* ------------------------------------------------------------------------

PathParts == <<"/", "work", "PRODUCTION", "demo", "a", "b", "c", "d">>

CdPaths == {SubSeq(PathParts, 1, n) : n \in 1..MaxParts}

\* What a directory may hold before clear_dir runs.
CdEntries ==
    { [name |-> "notes.txt", kind |-> "file",    by |-> "old", sub |-> {}],
      [name |-> "latest",    kind |-> "symlink", by |-> "old", sub |-> {}],
      [name |-> "empty",     kind |-> "dir",     by |-> "old", sub |-> {}],
      [name |-> "gerbers",   kind |-> "dir",     by |-> "old",
       sub |-> {[name |-> "F_Cu.gbr", by |-> "old"]}] }

CdDirs == {NoDir} \cup {[exists |-> TRUE, entries |-> s] : s \in SUBSET CdEntries}

\* ------------------------------------------------------------------------
\* The pipeline: names, inputs, helpers
\* ------------------------------------------------------------------------

\* The optional flags of the command line (--kikit stands for --kikit jlcpcb).
Flags == {"iso", "glb", "zip", "kikit", "skip_drc", "no_timestamp"}

\* Exit codes an external command may end with.
ExitCodes == {0, 1, 2}

\* The gerber files kicad-cli plots, depending on the layers of the board.
BoardPlots == {{"F_Cu.gbr"}, {"F_Cu.gbr", "In1_Cu.gbr"}}

\* prod_root = root / prod_dir / <project>, with root = Path(args.root).resolve()
ProdPath == SubSeq(PathParts, 1, 4)

NoFiles == [exists |-> FALSE, files |-> {}]

NoReadme == [exists |-> FALSE, tpl |-> "", header |-> ""]

\* Interpreters that may sit next to kicad-cli, and names on the search path.
Siblings == {"", "python.exe", "python"}

PathNames == {"python", "python3"}

\* The usual installation: no interpreter beside kicad-cli, python on the search path.
PathPython == [sibling |-> "", onPath |-> {"python"}]

PyEnvs == [sibling : Siblings, onPath : SUBSET PathNames]

\* A file or directory written by the run in progress.
Entry(name, kind, sub) == [name |-> name, kind |-> kind, by |-> "cur", sub |-> sub]

\* Writing path/name replaces what was there under that name.
Put(d, e) == [exists |-> TRUE, entries |-> {x \in d.entries : x.name # e.name} \cup {e}]

Has(d, name) == \E e \in d.entries : e.name = name

Get(d, name) == CHOOSE e \in d.entries : e.name = name

\* ensure_dir(d / name): an existing subdirectory is kept with its contents.
ensure_subdir(d, name) == IF Has(d, name) THEN d ELSE Put(d, Entry(name, "dir", {}))

\* Everything on disk when a run starts predates the run.
Aged(d) ==
    [exists  |-> d.exists,
     entries |-> {[e EXCEPT !.by = "old", !.sub = {[f EXCEPT !.by = "old"] : f \in e.sub}]
                    : e \in d.entries}]

\* The production folder the run writes to.
ProdRoot == IF "no_timestamp" \in args THEN fixed ELSE stamped

\* run(cmd, ok_codes) returns when the exit code is acceptable and raises otherwise.
run_any(code, ok_codes) == TRUE

run(code, ok_codes) == code \in ok_codes

\* An order of calls in which --iso adds no render.
NextCall_without_iso(cmd, a) ==
    CASE cmd = "step"      -> IF "glb" \in a THEN "glb" ELSE "top"
      [] cmd = "glb"       -> "top"
      [] cmd = "top"       -> "bottom"
      [] cmd = "bottom"    -> "side"
      [] cmd = "side"      -> "sch_pdf"
      [] cmd = "iso"       -> "sch_pdf"
      [] cmd = "sch_pdf"   -> "erc"
      [] cmd = "erc"       -> "board_pdf"
      [] cmd = "board_pdf" -> IF "skip_drc" \in a THEN "gerbers" ELSE "drc"
      [] cmd = "drc"       -> "gerbers"
      [] cmd = "gerbers"   -> "drill"
      [] cmd = "drill"     -> "pos"
      [] cmd = "pos"       -> "bom"
      [] cmd = "bom"       -> IF "kikit" \in a THEN "kikit" ELSE "readme"
      [] cmd = "kikit"     -> "readme"

\* The call that follows a successful call in main().
NextCall(cmd, a) ==
    CASE cmd = "step"      -> IF "glb" \in a THEN "glb" ELSE "top"
      [] cmd = "glb"       -> "top"
      [] cmd = "top"       -> "bottom"
      [] cmd = "bottom"    -> "side"
      [] cmd = "side"      -> IF "iso" \in a THEN "iso" ELSE "sch_pdf"
      [] cmd = "iso"       -> "sch_pdf"
      [] cmd = "sch_pdf"   -> "erc"
      [] cmd = "erc"       -> "board_pdf"
      [] cmd = "board_pdf" -> IF "skip_drc" \in a THEN "gerbers" ELSE "drc"
      [] cmd = "drc"       -> "gerbers"
      [] cmd = "gerbers"   -> "drill"
      [] cmd = "drill"     -> "pos"
      [] cmd = "pos"       -> "bom"
      [] cmd = "bom"       -> IF "kikit" \in a THEN "kikit" ELSE "readme"
      [] cmd = "kikit"     -> "readme"

\* The exception reaches the handler around main(): message printed, sys.exit(1).
Raise(msg) ==
    /\ pc' = "done"
    /\ exitCode' = 1
    /\ error' = msg

Continue(next) ==
    /\ pc' = next
    /\ UNCHANGED <<exitCode, error>>

Issue(cmd, code, via) == calls' = Append(calls, [cmd |-> cmd, code |-> code, via |-> via])

\* which_kicad_cli(): the search path, then the Windows default location.
which_kicad_cli(onPath, winDefault) == onPath \/ winDefault

\* project_paths(): the missing companion document, or "" when both exist.
project_paths(schExists, pcbExists) ==
    IF ~schExists THEN "Schematic not found"
    ELSE IF ~pcbExists THEN "Board not found"
    ELSE ""

\* ------------------------------------------------------------------------
\* main(): start of a run
\* ------------------------------------------------------------------------

\* A main() that sets up its output directories before it looks for the tool
\* and the project documents.
main_start_late(a, failing) ==
    /\ pc = "idle"
    /\ args' = a
    /\ calls' = <<>>
    /\ rendered' = "no"
    /\ isoAtStart' = ("demo_iso.png" \in pictures.files)
    /\ UNCHANGED <<prev, pyEnv>>
    /\ UNCHANGED readme
    /\ three_d' = [three_d EXCEPT !.exists = TRUE]
    /\ pictures' = [pictures EXCEPT !.exists = TRUE]
    /\ documentation' = TRUE
    /\ \E onPath \in BOOLEAN, winDefault \in BOOLEAN, schExists \in BOOLEAN, pcbExists \in BOOLEAN :
         LET msg == IF ~which_kicad_cli(onPath, winDefault) THEN "kicad-cli not found"
                    ELSE project_paths(schExists, pcbExists)
         IN  IF "no_timestamp" \in a
             THEN LET r == clear_dir(ProdPath, ensure_dir(Aged(fixed)), failing)
                  IN  /\ fixed' = r.dir
                      /\ warned' = r.warned
                      /\ stamped' = Aged(stamped)
                      /\ IF r.raised THEN Raise("Refusing to clear very shallow path")
                         ELSE IF msg # "" THEN Raise(msg)
                         ELSE Continue("step")
             ELSE /\ stamped' = ensure_dir(Aged(stamped))
                  /\ warned' = {}
                  /\ fixed' = Aged(fixed)
                  /\ IF msg # "" THEN Raise(msg) ELSE Continue("step")
    /\ UNCHANGED cdVars

\* Lines 469-489: tool lookup, project documents, the three output directories
\* and the production folder (cleared in fixed mode).
main_start(a, failing) ==
    /\ pc = "idle"
    /\ args' = a
    /\ calls' = <<>>
    /\ rendered' = "no"
    /\ isoAtStart' = ("demo_iso.png" \in pictures.files)
    /\ UNCHANGED <<prev, pyEnv>>
    /\ UNCHANGED readme
    /\ \E onPath \in BOOLEAN, winDefault \in BOOLEAN, schExists \in BOOLEAN, pcbExists \in BOOLEAN :
         IF ~which_kicad_cli(onPath, winDefault)
         THEN /\ Raise("kicad-cli not found")
              /\ warned' = {}
              /\ fixed' = Aged(fixed) /\ stamped' = Aged(stamped)
              /\ UNCHANGED <<three_d, pictures, documentation>>
         ELSE IF project_paths(schExists, pcbExists) # ""
         THEN /\ Raise(project_paths(schExists, pcbExists))
              /\ warned' = {}
              /\ fixed' = Aged(fixed) /\ stamped' = Aged(stamped)
              /\ UNCHANGED <<three_d, pictures, documentation>>
         ELSE /\ three_d' = [three_d EXCEPT !.exists = TRUE]
              /\ pictures' = [pictures EXCEPT !.exists = TRUE]
              /\ documentation' = TRUE
              /\ IF "no_timestamp" \in a
                 THEN LET r == clear_dir(ProdPath, ensure_dir(Aged(fixed)), failing)
                      IN  /\ fixed' = r.dir
                          /\ warned' = r.warned
                          /\ stamped' = Aged(stamped)
                          /\ IF r.raised
                             THEN Raise("Refusing to clear very shallow path")
                             ELSE Continue("step")
                 ELSE /\ stamped' = ensure_dir(Aged(stamped))
                      /\ warned' = {}
                      /\ fixed' = Aged(fixed)
                      /\ Continue("step")
    /\ UNCHANGED cdVars

\* ------------------------------------------------------------------------
\* Export steps: one external command per step
\* ------------------------------------------------------------------------

\* The file a render or documentation command writes (its -o argument).
OutFile(cmd) ==
    CASE cmd = "top"    -> "demo_top.png"
      [] cmd = "bottom" -> "demo_bottom.png"
      [] cmd = "side"   -> "demo_side.png"
      [] cmd = "iso"    -> "demo_iso.png"
      [] cmd = "step"   -> "demo.step"
      [] cmd = "glb"    -> "demo.glb"

\* The exception export_3d() raises after a command, or "" when it goes on:
\* {0, 2} are acceptable, and the STEP file must exist after the STEP export.
export_3d_outcome_unverified(cmd, code, files) ==
    IF ~run(code, {0, 2}) THEN "Command failed" ELSE ""

export_3d_outcome(cmd, code, files) ==
    IF ~run(code, {0, 2}) THEN "Command failed"
    ELSE IF cmd = "step" /\ OutFile("step") \notin files
    THEN "STEP export did not produce a file."
    ELSE ""

\* export_3d(): the STEP export and, with --glb, the GLB export; whether
\* kicad-cli wrote its output file is an input for every exit code.
export_3d ==
    /\ pc \in {"step", "glb"}
    /\ \E code \in ExitCodes, wrote \in BOOLEAN :
         LET files == IF wrote THEN three_d.files \cup {OutFile(pc)} ELSE three_d.files
             msg   == export_3d_outcome(pc, code, files)
         IN  /\ Issue(pc, code, "kicad-cli")
             /\ three_d' = [exists |-> TRUE, files |-> files]
             /\ IF msg # "" THEN Raise(msg) ELSE Continue(NextCall(pc, args))
    /\ UNCHANGED <<args, rendered, isoAtStart, warned, prev, pyEnv>>
    /\ UNCHANGED <<pictures, documentation, readme, fixed, stamped>>
    /\ UNCHANGED cdVars

\* export_pictures(): top, bottom, side and, with --iso, the isometric render;
\* a render that exits with 0 has written its output file.
export_pictures ==
    /\ pc \in {"top", "bottom", "side", "iso"}
    /\ \E code \in ExitCodes :
         /\ Issue(pc, code, "kicad-cli")
         /\ IF run(code, {0})
            THEN /\ pictures' = [exists |-> TRUE, files |-> pictures.files \cup {OutFile(pc)}]
                 /\ Continue(NextCall(pc, args))
            ELSE /\ UNCHANGED pictures
                 /\ Raise("Command failed")
    /\ UNCHANGED <<args, rendered, isoAtStart, warned, prev, pyEnv>>
    /\ UNCHANGED <<three_d, documentation, readme, fixed, stamped>>
    /\ UNCHANGED cdVars

\* export_docs(): schematic PDF, ERC report, board prints and, unless
\* --skip-drc, the DRC report.
export_docs ==
    /\ pc \in {"sch_pdf", "erc", "board_pdf", "drc"}
    /\ \E code \in ExitCodes :
         /\ Issue(pc, code, "kicad-cli")
         /\ IF run(code, {0}) THEN Continue(NextCall(pc, args)) ELSE Raise("Command failed")
    /\ documentation' = TRUE
    /\ UNCHANGED <<args, rendered, isoAtStart, warned, prev, pyEnv>>
    /\ UNCHANGED <<three_d, pictures, readme, fixed, stamped>>
    /\ UNCHANGED cdVars

\* zip_dir(src_dir, zip_path): a new archive of everything under src_dir.
zip_dir(d) == Put(d, Entry("demo_gerbers.zip", "file", Get(d, "gerbers").sub))

\* What one command of export_fab() leaves in the production folder d.
fab_output(cmd, d, plots) ==
    CASE cmd = "gerbers" ->
           LET old == Get(d, "gerbers")
               new == {[name |-> n, by |-> "cur"] : n \in plots}
           IN  Put(d, [old EXCEPT !.sub = {f \in old.sub : f.name \notin plots} \cup new])
      [] cmd = "drill"   -> Put(d, Entry("drill", "dir", {[name |-> "demo.drl", by |-> "cur"]}))
      [] cmd = "pos"     -> Put(d, Entry("demo_pos.csv", "file", {}))
      [] cmd = "bom"     -> Put(d, Entry("demo_bom.csv", "file", {}))

\* export_fab(): gerbers, drill, placement, BOM and, with --zip, the archive.
export_fab ==
    /\ pc \in {"gerbers", "drill", "pos", "bom"}
    /\ \E code \in ExitCodes, plots \in (IF pc = "gerbers" THEN BoardPlots ELSE {{}}) :
         LET ensured == ensure_subdir(ensure_subdir(ensure_dir(ProdRoot), "gerbers"), "drill")
             written == fab_output(pc, ensured, plots)
             packed  == IF pc = "bom" /\ "zip" \in args THEN zip_dir(written) ELSE written
             result  == IF run(code, {0}) THEN packed ELSE ensured
         IN  /\ Issue(pc, code, "kicad-cli")
             /\ IF "no_timestamp" \in args
                THEN fixed' = result /\ UNCHANGED stamped
                ELSE stamped' = result /\ UNCHANGED fixed
             /\ IF run(code, {0}) THEN Continue(NextCall(pc, args)) ELSE Raise("Command failed")
    /\ UNCHANGED <<args, rendered, isoAtStart, warned, prev, pyEnv>>
    /\ UNCHANGED <<three_d, pictures, documentation, readme>>
    /\ UNCHANGED cdVars

\* ------------------------------------------------------------------------
\* Vendor packaging and README
\* ------------------------------------------------------------------------

\* find_kicad_python_from_kicad_cli(): the sibling of kicad-cli, else python
\* or python3 from the search path, else "" (FileNotFoundError).
find_kicad_python_from_kicad_cli(sibling, onPath) ==
    IF sibling = "python.exe" THEN "sibling python.exe"
    ELSE IF sibling = "python" THEN "sibling python"
    ELSE IF "python" \in onPath THEN "PATH python"
    ELSE IF "python3" \in onPath THEN "PATH python3"
    ELSE ""

\* shutil.which("python") as run_kikit_fab() uses it, or "" when not found.
which_python(onPath) == IF "python" \in onPath THEN "PATH python" ELSE ""

\* run_kikit_fab(): interpreter lookup, <vendor>_production emptied, then
\* python -m kikit.ui fab; a removal that raises while emptying ends the run.
run_kikit_fab ==
    /\ pc = "kikit"
    /\ \E code \in ExitCodes, cleanFails \in BOOLEAN :
         LET python  == which_python(pyEnv.onPath)
             ensured == ensure_subdir(ensure_dir(ProdRoot), "jlcpcb_production")
             stale   == Get(ensured, "jlcpcb_production").sub # {}
             cleaned == Put(ensured, [Get(ensured, "jlcpcb_production") EXCEPT !.sub = {}])
             packed  == Put(ensured, Entry("jlcpcb_production", "dir",
                                           {[name |-> "gerbers.zip", by |-> "cur"]}))
             result  == IF python = "" THEN ProdRoot
                        ELSE IF stale /\ cleanFails THEN ensured
                        ELSE IF run(code, {0}) THEN packed
                        ELSE cleaned
         IN  /\ IF "no_timestamp" \in args
                THEN fixed' = result /\ UNCHANGED stamped
                ELSE stamped' = result /\ UNCHANGED fixed
             /\ IF python = ""
                THEN Raise("Python interpreter not found on PATH.") /\ UNCHANGED calls
                ELSE IF stale /\ cleanFails
                THEN Raise("removal failed") /\ UNCHANGED calls
                ELSE /\ Issue("kikit", code, python)
                     /\ IF run(code, {0}) THEN Continue("readme") ELSE Raise("Command failed")
    /\ UNCHANGED <<args, rendered, isoAtStart, warned, prev, pyEnv>>
    /\ UNCHANGED <<three_d, pictures, documentation, readme>>
    /\ UNCHANGED cdVars

\* A render_readme_if_missing that writes whether or not README.md exists.
render_readme_always(rd, tplExists, pics) ==
    [exists |-> TRUE,
     tpl    |-> IF tplExists THEN "README.template.md" ELSE "DEFAULT_README_TEMPLATE",
     header |-> IF "demo_iso.png" \in pics.files THEN "demo_iso.png" ELSE "demo_top.png"]

\* A render_readme_if_missing that picks the header from the top view only.
render_readme_top(rd, tplExists, pics) ==
    IF rd.exists THEN rd
    ELSE [exists |-> TRUE,
          tpl    |-> IF tplExists THEN "README.template.md" ELSE "DEFAULT_README_TEMPLATE",
          header |-> "demo_top.png"]

\* render_readme_if_missing(): README.md as it is after the call.  The text
\* written is the template (the file if present, else the built-in one) with
\* HEADER_IMAGE substituted.
render_readme_if_missing(rd, tplExists, pics) ==
    IF rd.exists THEN rd
    ELSE [exists |-> TRUE,
          tpl    |-> IF tplExists THEN "README.template.md" ELSE "DEFAULT_README_TEMPLATE",
          header |-> IF "demo_iso.png" \in pics.files THEN "demo_iso.png" ELSE "demo_top.png"]

\* Line 509 to the end of main(): the README step, the summary, exit status 0.
main_readme ==
    /\ pc = "readme"
    /\ \E tplExists \in BOOLEAN :
         readme' = render_readme_if_missing(readme, tplExists, pictures)
    /\ rendered' = IF readme.exists THEN "kept" ELSE "wrote"
    /\ pc' = "done"
    /\ exitCode' = 0
    /\ UNCHANGED <<args, calls, error, isoAtStart, warned, prev, pyEnv>>
    /\ UNCHANGED <<three_d, pictures, documentation, fixed, stamped>>
    /\ UNCHANGED cdVars

\* The process has ended; the next run is a new process.
main_exit ==
    /\ pc = "done"
    /\ pc' = "idle"
    /\ args' = {}
    /\ calls' = <<>>
    /\ exitCode' = -1
    /\ error' = ""
    /\ rendered' = "no"
    /\ isoAtStart' = FALSE
    /\ warned' = {}
    /\ prev' = [exit |-> exitCode, args |-> args]
    /\ UNCHANGED pyEnv
    /\ UNCHANGED fsVars
    /\ UNCHANGED cdVars

\* ------------------------------------------------------------------------
\* Between runs: the user and the clock
\* ------------------------------------------------------------------------

\* The user deletes README.md.
delete_readme ==
    /\ pc = "idle"
    /\ readme.exists
    /\ readme' = NoReadme
    /\ UNCHANGED <<three_d, pictures, documentation, fixed, stamped>>
    /\ UNCHANGED <<runVars, cdVars>>

\* The user deletes the isometric picture.
delete_iso ==
    /\ pc = "idle"
    /\ "demo_iso.png" \in pictures.files
    /\ pictures' = [pictures EXCEPT !.files = @ \ {"demo_iso.png"}]
    /\ UNCHANGED <<three_d, documentation, readme, fixed, stamped>>
    /\ UNCHANGED <<runVars, cdVars>>

\* timestamp_tag(): the minute changes, and the folder named after the new
\* minute does not exist yet.
tick ==
    /\ pc = "idle"
    /\ stamped.exists
    /\ stamped' = NoDir
    /\ UNCHANGED <<three_d, pictures, documentation, readme, fixed>>
    /\ UNCHANGED <<runVars, cdVars>>

\* ------------------------------------------------------------------------
\* Specifications
\* ------------------------------------------------------------------------

\* Nothing has been built yet and no process is running.
InitRun ==
    /\ pc = "idle"
    /\ args = {}
    /\ calls = <<>>
    /\ exitCode = -1
    /\ error = ""
    /\ rendered = "no"
    /\ isoAtStart = FALSE
    /\ warned = {}
    /\ prev = [exit |-> -1, args |-> {}]

InitFs ==
    /\ three_d = NoFiles
    /\ pictures = NoFiles
    /\ documentation = FALSE
    /\ readme = NoReadme
    /\ fixed = NoDir
    /\ stamped = NoDir

InitCd ==
    /\ cdPath = ProdPath
    /\ cdDir = NoDir
    /\ cdBefore = NoDir
    /\ cdFailing = {}
    /\ cdVisited = {}
    /\ cdOut = "none"

\* A run starts with flags from A; in fixed mode the removal of up to
\* MaxFailing entries fails while the folder is cleared.
Start(A) ==
    \E a \in A :
      \E failing \in (IF "no_timestamp" \in a
                      THEN {S \in SUBSET Names(fixed.entries) : Cardinality(S) <= MaxFailing}
                      ELSE {{}}) :
        main_start(a, failing)

Exports ==
    \/ export_3d
    \/ export_pictures
    \/ export_docs
    \/ export_fab

\* ---- One run, any flags, from any state earlier runs and the user leave ----

\* A production folder as a complete earlier run without optional flags left it.
EarlierProd ==
    [exists  |-> TRUE,
     entries |-> { [name |-> "gerbers", kind |-> "dir", by |-> "old",
                    sub |-> {[name |-> "F_Cu.gbr", by |-> "old"]}],
                   [name |-> "drill", kind |-> "dir", by |-> "old",
                    sub |-> {[name |-> "demo.drl", by |-> "old"]}],
                   [name |-> "demo_pos.csv", kind |-> "file", by |-> "old", sub |-> {}],
                   [name |-> "demo_bom.csv", kind |-> "file", by |-> "old", sub |-> {}] }]

Renders == {"demo_top.png", "demo_bottom.png", "demo_side.png"}

\* README.md: none, written by the user, or generated by an earlier run.
EarlierReadmes ==
    { NoReadme,
      [exists |-> TRUE, tpl |-> "", header |-> ""],
      [exists |-> TRUE, tpl |-> "DEFAULT_README_TEMPLATE", header |-> "demo_top.png"] }

InitEarlier ==
    /\ readme \in EarlierReadmes
    /\ \/ /\ three_d = NoFiles                    \* the pipeline never ran here
          /\ pictures = NoFiles
          /\ documentation = FALSE
          /\ fixed = NoDir
          /\ stamped = NoDir
       \/ /\ three_d \in {[exists |-> TRUE, files |-> f] : f \in {{}, {"demo.step"}}}
          /\ pictures \in {[exists |-> TRUE, files |-> f] :
                             f \in {Renders, Renders \cup {"demo_iso.png"}}}
          /\ documentation = TRUE
          /\ fixed \in {NoDir, EarlierProd}
          /\ stamped = fixed

Init == InitCd /\ InitRun /\ InitEarlier /\ pyEnv = PathPython

Next ==
    \/ Start(SUBSET Flags)
    \/ Exports
    \/ run_kikit_fab
    \/ main_readme

Spec == Init /\ [][Next]_vars

\* ---- Any number of runs from a fresh checkout ----

InitFresh == InitCd /\ InitRun /\ InitFs

\* Every run in fixed mode, with or without --zip and --kikit.
NextFixed ==
    \/ Start({{"no_timestamp"} \cup S : S \in SUBSET {"zip", "kikit"}})
    \/ Exports
    \/ run_kikit_fab
    \/ main_readme
    \/ main_exit

InitFixed == InitFresh /\ pyEnv = PathPython

SpecFixed == InitFixed /\ [][NextFixed]_vars

\* Every run in timestamped mode, with or without --zip and --kikit, on a
\* machine with any set of interpreters.
NextStamped ==
    \/ Start(SUBSET {"zip", "kikit"})
    \/ Exports
    \/ run_kikit_fab
    \/ main_readme
    \/ main_exit
    \/ tick

InitStamped == InitFresh /\ pyEnv \in PyEnvs

SpecStamped == InitStamped /\ [][NextStamped]_vars

\* Runs with or without --iso, the user deleting README.md or the isometric
\* picture in between.
NextReadme ==
    \/ Start(SUBSET {"iso"})
    \/ Exports
    \/ main_readme
    \/ main_exit
    \/ delete_readme
    \/ delete_iso
    \/ tick

InitReadme == InitFresh /\ pyEnv = PathPython

SpecReadme == InitReadme /\ [][NextReadme]_vars

\* ---- clear_dir on its own ----

InitClear ==
    /\ cdPath \in CdPaths
    /\ cdDir \in CdDirs
    /\ (Len(cdPath) = 1 => cdDir.exists)      \* the filesystem root always exists
    /\ cdBefore = cdDir
    /\ cdFailing = {}
    /\ cdVisited = {}
    /\ cdOut = "none"
    /\ InitRun
    /\ InitFs
    /\ pyEnv = PathPython

\* One call of clear_dir(cdPath); the entries whose removal raises are an input.
ClearDirCall ==
    /\ cdOut = "none"
    /\ \E failing \in SUBSET Names(cdDir.entries) :
         LET r == clear_dir(cdPath, cdDir, failing)
         IN  /\ cdDir' = r.dir
             /\ cdVisited' = r.visited
             /\ cdOut' = IF r.raised THEN "raised" ELSE "returned"
             /\ cdFailing' = failing
    /\ UNCHANGED <<cdPath, cdBefore>>
    /\ UNCHANGED <<runVars, fsVars>>

NextClear == ClearDirCall

SpecClear == InitClear /\ [][NextClear]_vars

\* ------------------------------------------------------------------------
\* Properties
\* ------------------------------------------------------------------------

CdCalled == cdOut # "none"

Shallow == Len(cdPath) < MinParts

\* C1: clear_dir on a path with fewer than 3 resolved parts always fails and
\* leaves the filesystem as it was: nothing created, nothing removed.
C1_ShallowRefusedUntouched ==
    (CdCalled /\ Shallow) => (cdOut = "raised" /\ cdDir = cdBefore)

\* C8 as claimed: clear_dir on a path with 3 or more parts always leaves the
\* directory existing and empty, also when removals fail, after visiting
\* every direct child.
C8_AlwaysEmpty ==
    (CdCalled /\ ~Shallow) =>
        /\ cdOut = "returned"
        /\ cdDir = EmptyDir
        /\ cdVisited = Names(cdBefore.entries)

\* C8 as amended: clear_dir on a path with 3 or more parts always returns,
\* the directory exists, every direct child was visited, and what is left
\* is exactly the entries whose removal failed (nothing, if none failed).
C8_BestEffortClear ==
    (CdCalled /\ ~Shallow) =>
        /\ cdOut = "returned"
        /\ cdDir.exists
        /\ cdVisited = Names(cdBefore.entries)
        /\ cdDir.entries = {e \in cdBefore.entries : e.name \in cdFailing}

\* A directory with files, a symlink and subdirectories was cleared while one
\* removal failed and the others succeeded.
C8_Witness ==
    /\ cdOut = "returned"
    /\ cdBefore.entries = CdEntries
    /\ Cardinality(cdFailing) = 1
    /\ Cardinality(cdDir.entries) = 1

\* ---- the order of the external calls ----

CallOrder ==
    <<"step", "glb", "top", "bottom", "side", "iso", "sch_pdf", "erc", "board_pdf",
      "drc", "gerbers", "drill", "pos", "bom", "kikit">>

Pos(cmd) == CHOOSE i \in 1..Len(CallOrder) : CallOrder[i] = cmd

\* The exit codes the caller of each command accepts.
Acceptable(cmd) == IF cmd \in {"step", "glb"} THEN {0, 2} ELSE {0}

LastCall == calls[Len(calls)]

\* C4: the external calls are issued in the order 3D, pictures,
\* documentation, fabrication, vendor packaging, and the README step comes
\* after all of them; a call that ends with an unacceptable exit code is the
\* last call of the run, the README step is not performed and the process
\* exits with a non-zero status.
C4_OrderedAndAbortsOnFailure ==
    /\ \A i, j \in 1..Len(calls) : i < j => Pos(calls[i].cmd) < Pos(calls[j].cmd)
    /\ rendered # "no" => (pc = "done" /\ exitCode = 0)
    /\ \A i \in 1..Len(calls) :
         calls[i].code \notin Acceptable(calls[i].cmd) =>
            /\ i = Len(calls)
            /\ pc = "done"
            /\ exitCode = 1
            /\ rendered = "no"

\* A run with --kikit got through 3D, pictures and documentation and failed
\* at the drill export: nothing was called after it.
C4_Witness ==
    /\ pc = "done"
    /\ exitCode = 1
    /\ "kikit" \in args
    /\ Len(calls) > 1
    /\ LastCall.cmd = "drill"
    /\ LastCall.code = 2

\* C5: the STEP export accepts exit codes 0 and 2 but goes on only if the
\* STEP file exists afterwards; otherwise the run ends at that call with a
\* non-zero status and no later step, the README step included, executes.
C5_StepToleratedOnlyWithFile ==
    Len(calls) >= 1 =>
        /\ calls[1].cmd = "step"
        /\ IF calls[1].code \in {0, 2} /\ "demo.step" \in three_d.files
           THEN Len(calls) = 1 => (pc = NextCall("step", args) /\ exitCode = -1)
           ELSE /\ Len(calls) = 1
                /\ pc = "done"
                /\ exitCode = 1
                /\ rendered = "no"

\* The STEP export ended with the tolerated code 2 and left no file.
C5_Witness ==
    /\ Len(calls) = 1
    /\ calls[1].code = 2
    /\ "demo.step" \notin three_d.files
    /\ error = "STEP export did not produce a file."

\* ---- README.md ----

\* C2: a README.md that exists is left as it is by every step of every run.
C2_ExistingReadmeUntouched == [][readme.exists => readme' = readme]_vars

\* A run with --iso went through the README step with a README.md present
\* that names the top view, although the isometric picture now exists.
C2_Witness ==
    /\ rendered = "kept"
    /\ "iso" \in args
    /\ "demo_iso.png" \in pictures.files
    /\ readme.header = "demo_top.png"

\* C6: a README.md generated by the run has the isometric picture as header
\* if and only if that picture is in PICTURES, and the top view otherwise.
C6_HeaderFollowsIsoFile ==
    rendered = "wrote" =>
        readme.header = IF "demo_iso.png" \in pictures.files
                        THEN "demo_iso.png" ELSE "demo_top.png"

\* A run without --iso generated README.md with the isometric header.
C6_Witness ==
    /\ rendered = "wrote"
    /\ "iso" \notin args
    /\ readme.header = "demo_iso.png"

\* C7 as claimed: a run that generates README.md uses the isometric header
\* exactly when it was started with --iso, whatever ran before.
C7_HeaderFollowsFlag ==
    rendered = "wrote" => (readme.header = "demo_iso.png" <=> "iso" \in args)

\* C7 as amended: a run that generates README.md uses the isometric header
\* exactly when it was started with --iso or the isometric picture was
\* already in PICTURES when it started; otherwise the top view.
C7_HeaderFollowsFlagOrLeftover ==
    rendered = "wrote" =>
        /\ readme.header = "demo_iso.png" <=> ("iso" \in args \/ isoAtStart)
        /\ readme.header = "demo_top.png" <=> ~("iso" \in args \/ isoAtStart)

\* A run without flags generated README.md with the isometric header left by
\* an earlier run with --iso that failed before its README step.
C7_Witness ==
    /\ rendered = "wrote"
    /\ args = {}
    /\ prev.exit = 1
    /\ "iso" \in prev.args
    /\ readme.header = "demo_iso.png"

\* ---- the production folder ----

\* An entry the current run wrote; for a directory, with every file in it.
Current(e) == e.by = "cur" /\ (e.kind = "dir" => \A f \in e.sub : f.by = "cur")

TwoFixedRunsDone ==
    /\ pc = "done"
    /\ exitCode = 0
    /\ "no_timestamp" \in args
    /\ prev.exit = 0
    /\ "no_timestamp" \in prev.args

\* C3 as claimed: after two successive successful runs in fixed mode the
\* production folder holds only what the second run wrote.
C3_OnlySecondRun ==
    TwoFixedRunsDone => \A e \in fixed.entries : Current(e)

\* C3 as amended: after two successive successful runs in fixed mode the
\* production folder holds only what the second run wrote and the entries
\* clear_dir warned it could not remove.
C3_OnlySecondRunOrWarned ==
    TwoFixedRunsDone => \A e \in fixed.entries : Current(e) \/ e.name \in warned

\* The first run left an archive and a vendor folder, the second run asked
\* for neither, every removal succeeded and both are gone.
C3_Witness ==
    /\ TwoFixedRunsDone
    /\ {"zip", "kikit"} \subseteq prev.args
    /\ args = {"no_timestamp"}
    /\ warned = {}
    /\ Names(fixed.entries) = {"gerbers", "drill", "demo_pos.csv", "demo_bom.csv"}

\* C10: the archive written by a run holds exactly the gerber files that run
\* plotted, and nothing left by an earlier run.
C10_ArchiveOnlyThisRun ==
    (Has(ProdRoot, "demo_gerbers.zip") /\ Get(ProdRoot, "demo_gerbers.zip").by = "cur") =>
        /\ \A f \in Get(ProdRoot, "demo_gerbers.zip").sub : f.by = "cur"
        /\ Get(ProdRoot, "demo_gerbers.zip").sub
             = {f \in Get(ProdRoot, "gerbers").sub : f.by = "cur"}

\* C9: vendor packaging runs under the interpreter that
\* find_kicad_python_from_kicad_cli resolves (beside kicad-cli, else on the
\* search path) and fails with NotFound only if that finds none.
C9_CompanionInterpreter ==
    LET resolved == find_kicad_python_from_kicad_cli(pyEnv.sibling, pyEnv.onPath)
    IN  /\ \A i \in 1..Len(calls) : calls[i].cmd = "kikit" => calls[i].via = resolved
        /\ error = "Python interpreter not found on PATH." => resolved = ""

\* The errors of the two checks main() makes first: which_kicad_cli() and
\* project_paths().
InputErrors == {"kicad-cli not found", "Schematic not found", "Board not found"}

\* What is on disk in a production folder: names, kinds and members.
Listing(d) ==
    [exists  |-> d.exists,
     entries |-> {[name |-> e.name, kind |-> e.kind, sub |-> {f.name : f \in e.sub}]
                    : e \in d.entries}]

\* C11: a run that fails because kicad-cli cannot be located or the schematic
\* or the board is missing fails in its first step, with exit status 1 and no
\* command issued, and leaves the disk as it was: no output directory is
\* created and the production folders, the fixed one included, keep every
\* entry an earlier run left.
C11_ChecksPrecedeChanges ==
    [][(pc = "idle" /\ error' \in InputErrors) =>
          /\ pc' = "done" /\ exitCode' = 1 /\ calls' = <<>>
          /\ three_d' = three_d
          /\ pictures' = pictures
          /\ documentation' = documentation
          /\ readme' = readme
          /\ Listing(fixed') = Listing(fixed)
          /\ Listing(stamped') = Listing(stamped)]_vars

\* A --no-timestamp run on a project whose board is missing has failed and the
\* artifacts of the earlier run are all still in the fixed production folder.
C11_Witness ==
    /\ pc = "done"
    /\ error = "Board not found"
    /\ "no_timestamp" \in args
    /\ calls = <<>>
    /\ Listing(fixed) = Listing(EarlierProd)

====
